---- MODULE Spec2Model ----
(***************************************************************************)
(* The cells of the course notebooks, as a state machine over the names    *)
(* the kernel holds.                                                        *)
(*                                                                          *)
(* Spec, RowSpec, QuerySpec: 02-text-embeddings.ipynb builds tfidf_df from  *)
(* covid_df with sklearn's TfidfVectorizer (default parameters), and        *)
(* 05-exercise-answers.ipynb ranks the other stories against the first one. *)
(* StepSpec: the counting inside fit_transform, one document at a time.     *)
(* CountSpec: spacy_tokenizer and the CountVectorizer cell of               *)
(* 01-foundations.ipynb.  EmbSpec: the pairwise cosine_similarity cell of   *)
(* 02-text-embeddings.ipynb.  LlmSpec: the classify functions of            *)
(* 04-applying-sota-nlp.ipynb; BatchSpec: the cells that apply them to a    *)
(* column; FewShotSpec: the cell that builds few_shot_examples and the      *)
(* few-shot batch.  NerSpec: the entity_sets and edges cells of             *)
(* 01-foundations.ipynb (and the PERSON variant of 05-exercise-answers);    *)
(* PlotSpec: the edge list and network cells that follow them.              *)
(*                                                                          *)
(* Numbers.  TF-IDF weights are fixed-point: the unit is 1/10, so idf_ = 10 *)
(* means 1.0.  A row of tfidf_df is kept as the unnormalised weights w      *)
(* together with n2 = sum of w^2; the stored row is w / sqrt(n2) (sklearn's *)
(* norm='l2'), so the square of an entry is the fraction w^2 / n2.  A       *)
(* cosine between rows of tfidf_df is kept as its square, a reduced         *)
(* fraction <<num, den>>; all weights are >= 0, so squares order the        *)
(* cosines.  The cosines of the embedding cell are shown as numbers, so     *)
(* there every operation rounds, to multiples of 1/Unit.                    *)
(* Indices are Python's: document d is covid_df.iloc[d], d = 0..N-1.        *)
(***************************************************************************)
EXTENDS Integers, Sequences, FiniteSets, TLC

\* -------------------------------------------------------------- state
VARIABLES
    data,                 \* the rows of data/covid_stories.csv, tokenized
    defined,              \* the global names the kernel holds
    covid_df,             \* pd.read_csv(...): one token list per story
    vocabulary_,          \* vectorizer.get_feature_names_out()
    idf_,                 \* vectorizer.idf_
    tfidf_df,             \* the rows of X.toarray()
    tfidf_sim,            \* tfidf_sim[0]
    tfidf_top5_indices,
    call,                 \* the cell run last and the argument it was run with
    out,                  \* what the last cell displayed
    err,                  \* the exception the last cell raised, or "none"
    financial_headlines,  \* 01-foundations: the texts, as nlp() analyses them
    tokens,               \* 01-foundations: the processed tokens of one text
    df,                   \* 01-foundations: the count matrix, later the edge list
    embeddings,           \* 02-text-embeddings: one vector per document
    cosine_sim,           \* 02-text-embeddings: the pairwise similarity matrix
    pending,              \* fit_transform: the documents not counted yet
    vocabulary,           \* fit_transform: the terms seen, index = position - 1
    feature_counters,     \* fit_transform: per document, <<index, count>> pairs
    X,                    \* fit_transform: the finished count matrix
    in_flight,            \* 04-applying-sota-nlp: the function awaiting the service
    output_text,          \* 04-applying-sota-nlp: response.output_text, in lexemes
    prediction,           \* 04-applying-sota-nlp: what the classify call returned
    messages,             \* 04-applying-sota-nlp: the input of the last request
    few_shot_examples_df, \* 04-applying-sota-nlp: the example articles and labels
    few_shot_examples,    \* 04-applying-sota-nlp: the examples as messages
    labeled_df,           \* 04-applying-sota-nlp: articles and predicted columns
    unlabeled_df,         \* 04-applying-sota-nlp: articles and the predicted column
    batch,                \* 04-applying-sota-nlp: the Series.apply under way or last run
    bookdoc,              \* 01-foundations: the sentences of the book, their entities
    entity_sets,          \* 01-foundations: the entity groups, each as it iterates
    edges,                \* 01-foundations: the pair counts, in insertion order
    weights,              \* 01-foundations: the edge weights of G
    max_weight,
    widths                \* 01-foundations: the line widths, as fractions

\* ------------------------------------------------------------ bounds
MaxDocs == 3        \* rows in data/covid_stories.csv
MaxK == 2           \* |k| of the generalised top-k slice, besides the notebook's 5
MaxIndex == 4       \* |i| of the row index handed to tfidf_df.iloc[i]
MaxVectors == 2     \* documents embedded
MaxLexemes == 3     \* length of the arbitrary response texts
MaxRows == 2        \* articles in labeled_df
MaxExamples == 2    \* rows of data/covid_stories_fewshot_examples.csv
MaxSents == 2       \* sentences of the book

\* ------------------------------------------------- program constants
TopN == 5           \* tfidf_sim[0].argsort()[-5:][::-1]
QueryIndex == 0     \* tfidf_df.iloc[0]: the first story is the query
EmbDim == 2         \* embeddings.shape[1], 384 in the notebook
HeadRows == 500     \* df.head(500)

\* ------------------------------------------------------ input domain
\* Tokens as spacy_tokenizer returns them, listed in Python's string order.
Alphabet == <<"apple", "cat", "dog", "go", "ran", "sat", "stock">>

\* Token lists of single stories (the bodyContent column after tokenizing).
DocPool ==
    { <<>>,
      <<"cat", "sat">>,
      <<"dog", "sat">>,
      <<"cat", "ran">>,
      <<"sat", "sat", "dog">> }

Corpora == UNION { [1..n -> DocPool] : n \in 0..MaxDocs }

\* ------------------------------------------------------- arithmetic
Range(s) == { s[i] : i \in DOMAIN s }

RECURSIVE SumSeq(_)
SumSeq(s) == IF s = <<>> THEN 0 ELSE Head(s) + SumSeq(Tail(s))

RECURSIVE Gcd(_, _)
Gcd(a, b) == IF b = 0 THEN a ELSE Gcd(b, a % b)

\* The fraction p/q (p >= 0, q > 0) in lowest terms.
Frac(p, q) == LET g == Gcd(p, q) IN <<p \div g, q \div g>>

\* a/b < c/d for a, c >= 0 and b, d > 0, by continued fractions (the
\* cross products do not fit a machine integer).
RECURSIVE FracLess(_, _, _, _)
FracLess(a, b, c, d) ==
    LET ia == a \div b
        ic == c \div d
        ra == a % b
        rc == c % d
    IN  IF ia # ic THEN ia < ic
        ELSE IF rc = 0 THEN FALSE
        ELSE IF ra = 0 THEN TRUE
        ELSE FracLess(d, rc, b, ra)

Less(x, y) == FracLess(x[1], x[2], y[1], y[2])

\* 10 * ln(n), rounded.
Ln10 == <<0, 7, 11, 14, 16, 18, 19, 21, 22, 23>>

\* ------------------------------------------ TfidfVectorizer (sklearn)
Count(t, doc) == Cardinality({ i \in DOMAIN doc : doc[i] = t })

\* df(t): the number of documents that contain t.
Df(t, docs) == Cardinality({ d \in DOMAIN docs : Count(t, docs[d]) > 0 })

RECURSIVE Flatten(_)
Flatten(docs) == IF docs = <<>> THEN <<>> ELSE Head(docs) \o Flatten(Tail(docs))

RECURSIVE Dedup(_, _)
Dedup(s, seen) ==
    IF s = <<>> THEN <<>>
    ELSE IF Head(s) \in seen THEN Dedup(Tail(s), seen)
    ELSE <<Head(s)>> \o Dedup(Tail(s), seen \cup {Head(s)})

\* CountVectorizer._count_vocab: a token gets the next free index the first
\* time it is met, documents in corpus order, tokens in document order.
FirstOccurrence(docs) == Dedup(Flatten(docs), {})

\* Mutant of SortFeatures: the features keep the order they were met in.
SortFeaturesSkipped(v) == v

\* CountVectorizer._sort_features: the features are then put in string order.
SortFeatures(v) == SelectSeq(Alphabet, LAMBDA t : t \in Range(v))

\* vectorizer.get_feature_names_out(): feature j (from 0) is names[j+1].
FeatureNames(docs) == SortFeatures(FirstOccurrence(docs))

\* The position of term t in the sequence v (t occurs in v).
PositionIn(v, t) == CHOOSE i \in DOMAIN v : v[i] = t

\* Mutant of MapIndex: the counts keep the index they were counted under.
MapIndexSkipped(v, names, old) == old

\* _sort_features: the index the feature with index old gets when the
\* features v are put in the order names.
MapIndex(v, names, old) == PositionIn(names, v[old + 1]) - 1

\* The count a document's feature counter holds for column j (from 0) of
\* the sorted matrix.
ColumnCount(counter, v, names, j) ==
    SumSeq([ i \in DOMAIN counter |->
               IF MapIndex(v, names, counter[i][1]) = j THEN counter[i][2] ELSE 0 ])

\* Mutant of Idf: the document count carries over from the previous fit.
IdfAccumulated(t, docs) ==
    Ln10[Len(docs) + Len(covid_df) + 1] - Ln10[Df(t, docs) + 1] + 10

\* TfidfTransformer, smooth_idf=True: idf = ln((1+N)/(1+df)) + 1.
Idf(t, docs) == Ln10[Len(docs) + 1] - Ln10[Df(t, docs) + 1] + 10

\* Mutant of Tf: add-one smoothing of the counts.
TfAddOne(t, doc) == Count(t, doc) + 1

\* TfidfTransformer, sublinear_tf=False: tf is the raw count.
Tf(t, doc) == Count(t, doc)

\* One row of X before normalisation, over the features in index order.
Weights(doc, docs, names) ==
    [ j \in DOMAIN names |-> Tf(names[j], doc) * Idf(names[j], docs) ]

Norm2(w) == SumSeq([ j \in DOMAIN w |-> w[j] * w[j] ])

\* TfidfTransformer, norm='l2': the row is w / sqrt(n2); a zero row stays zero.
TfidfRow(doc, docs, names) ==
    LET w == Weights(doc, docs, names) IN [ w |-> w, n2 |-> Norm2(w) ]

\* The square of entry j of a row, as a fraction.
Entry2(row, j) == IF row.n2 = 0 THEN <<0, 1>> ELSE Frac(row.w[j] * row.w[j], row.n2)

\* Mutant of EmptyVocabulary: the vocabulary is never checked.
EmptyVocabularyUnchecked(docs) == FALSE

\* fit_transform raises ValueError("empty vocabulary") when no document has a token.
EmptyVocabulary(docs) == FirstOccurrence(docs) = <<>>

\* ------------------------------------------------- spaCy tokenizer
\* str.lower() on the strings the model uses.
Lower(s) ==
    CASE s = "Apple" -> "apple"
      [] s = "Went" -> "went"
      [] OTHER -> s

\* spaCy's English stop list (the part of it the model's texts touch).
StopWords == {"is", "be", "go", "the"}

Punctuation == {".", ","}

\* token.is_stop: the lower-cased text of the token is on the stop list.
IsStop(token) == Lower(token.text) \in StopWords

\* token.is_punct
IsPunct(token) == token.text \in Punctuation

\* Mutant of Keep: the filter forgets the punctuation test.
KeepPunct(token) == ~IsStop(token)

\* The filter of spacy_tokenizer: not token.is_stop and not token.is_punct.
Keep(token) == ~IsStop(token) /\ ~IsPunct(token)

\* spacy_tokenizer(text), on the tokens nlp(text) yields:
\* [token.lemma_.lower() for token in doc if not token.is_stop and not token.is_punct]
spacy_tokenizer(doc) ==
    LET kept == SelectSeq(doc, Keep)
    IN  [ i \in DOMAIN kept |-> Lower(kept[i].lemma) ]

\* nlp(text) for a few texts: each token with its text and its lemma.
Tok(text, lemma) == [text |-> text, lemma |-> lemma]

RawPool ==
    { <<>>,
      <<Tok("Apple", "Apple"), Tok("is", "be"), Tok("stocks", "stock"), Tok(".", ".")>>,
      <<Tok("stocks", "stock"), Tok("Went", "go"), Tok("stock", "stock")>>,
      <<Tok("is", "be"), Tok(".", ".")>>,
      <<Tok("went", "go"), Tok(",", ","), Tok("Apple", "Apple")>> }

RawCorpora == UNION { [1..n -> RawPool] : n \in 0..MaxDocs }

\* Mutant of CountRow: binary=True, a term present counts 1.
CountRowBinary(doc, names) ==
    [ j \in DOMAIN names |-> IF Count(names[j], doc) > 0 THEN 1 ELSE 0 ]

\* One row of CountVectorizer's X: the count of every feature in the document.
CountRow(doc, names) == [ j \in DOMAIN names |-> Count(names[j], doc) ]

\* --------------------------------------------------------- json.loads
\* A response text is a sequence of JSON lexemes.  A string lexeme carries
\* its quotes.
Lexemes == {"{", "}", ":", ",", "\"classification\"", "1", "2"}

IsNumber(l) == l \in {"0", "1", "2"}

IsString(l) == l \in {"\"classification\"", "\"label\""}

\* The str a string lexeme decodes to.
Unquote(l) ==
    CASE l = "\"classification\"" -> "classification"
      [] l = "\"label\"" -> "label"
      [] OTHER -> l

\* Python values: a number or a str (text), or a dict (members, <<key, value>>
\* pairs in insertion order).  Null is None.
Null == [type |-> "null", text |-> "", members |-> <<>>]

Scalar(type, text) == [type |-> type, text |-> text, members |-> <<>>]

Dict(members) == [type |-> "object", text |-> "", members |-> members]

NoParse == [ok |-> FALSE, value |-> Null, next |-> 0]

\* The JSON decoder: the value that starts at lexeme p of text t, and the
\* position after it; an object is "{" "}" or "{" members "}", a member is
\* string ":" value, members are separated by ",".
RECURSIVE ParseValue(_, _)
RECURSIVE ParseMembers(_, _, _)
ParseValue(t, p) ==
    IF p > Len(t) THEN NoParse
    ELSE IF IsNumber(t[p])
         THEN [ok |-> TRUE, value |-> Scalar("number", t[p]), next |-> p + 1]
    ELSE IF IsString(t[p])
         THEN [ok |-> TRUE, value |-> Scalar("string", Unquote(t[p])), next |-> p + 1]
    ELSE IF t[p] = "{"
         THEN IF p + 1 <= Len(t) /\ t[p + 1] = "}"
              THEN [ok |-> TRUE, value |-> Dict(<<>>), next |-> p + 2]
              ELSE ParseMembers(t, p + 1, <<>>)
    ELSE NoParse

ParseMembers(t, p, acc) ==
    IF p + 1 <= Len(t) /\ IsString(t[p]) /\ t[p + 1] = ":"
    THEN LET v == ParseValue(t, p + 2)
             all == Append(acc, <<Unquote(t[p]), v.value>>)
         IN  IF ~v.ok \/ v.next > Len(t) THEN NoParse
             ELSE IF t[v.next] = "," THEN ParseMembers(t, v.next + 1, all)
             ELSE IF t[v.next] = "}"
                  THEN [ok |-> TRUE, value |-> Dict(all), next |-> v.next + 1]
             ELSE NoParse
    ELSE NoParse

\* json.loads(text): the whole text is one value, else JSONDecodeError.
json_loads(t) ==
    LET r == ParseValue(t, 1)
    IN  IF r.ok /\ r.next = Len(t) + 1
        THEN [err |-> "none", value |-> r.value]
        ELSE [err |-> "JSONDecodeError", value |-> Null]

\* value[key]: the last member under the key of a dict, KeyError without
\* one; TypeError for a number or a str.
GetItem(value, key) ==
    IF value.type # "object" THEN [err |-> "TypeError", value |-> Null]
    ELSE LET at == { i \in DOMAIN value.members : value.members[i][1] = key }
         IN  IF at = {} THEN [err |-> "KeyError", value |-> Null]
             ELSE [err |-> "none",
                   value |-> value.members[CHOOSE i \in at : \A k \in at : k <= i][2]]

\* json.loads(response.output_text)['classification']
Classification(t) ==
    LET loaded == json_loads(t)
    IN  IF loaded.err # "none" THEN loaded
        ELSE GetItem(loaded.value, "classification")

\* What the service may answer: some full responses, and every text of up to
\* MaxLexemes lexemes.
ResponsePool ==
    { <<"{", "\"classification\"", ":", "0", "}">>,
      <<"{", "\"classification\"", ":", "1", "}">>,
      <<"{", "\"classification\"", ":", "2", "}">>,
      <<"{", "\"classification\"", ":", "\"label\"", "}">>,
      <<"{", "\"classification\"", ":", "{", "}", "}">>,
      <<"{", "\"label\"", ":", "1", "}">>,
      <<"{", "\"classification\"", ":", "1">>,
      <<"{", "\"classification\"", ":", "1", "}", "}">>,
      <<"{", "\"label\"", ":", "0", ",", "\"classification\"", ":", "1", "}">>,
      <<"{", "\"classification\"", ":", "0", ",", "\"classification\"", ":", "2", "}">> }

Responses == ResponsePool \cup UNION { [1..n -> Lexemes] : n \in 0..MaxLexemes }

\* ------------------------------------------------ request messages
\* A text is a sequence of strings: an article is one string, the text of an
\* assistant message is the lexemes of a JSON object.
system_prompt == <<"system_prompt">>

ArticleTexts == { <<"article 1">>, <<"article 2">> }

\* {"role": role, "content": [{"type": type, "text": text}]}
Message(role, type, text) == [role |-> role, type |-> type, text |-> text]

\* str(label) in the f-string.
Str(n) ==
    CASE n = 0 -> "0"
      [] n = 1 -> "1"
      [] OTHER -> "2"

\* f'{{"classification":{x['label']}}}'
FormatLabel(label) == <<"{", "\"classification\"", ":", Str(label), "}">>

\* The pair of messages of one row x of few_shot_examples_df.
ExamplePair(x) ==
    << Message("user", "input_text", x.bodyContent),
       Message("assistant", "output_text", FormatLabel(x.label)) >>

\* few_shot_examples = [y for x in few_shot_examples for y in x], the inner
\* list being one pair per row of few_shot_examples_df.iterrows().
RECURSIVE FlattenPairs(_)
FlattenPairs(rows) ==
    IF rows = <<>> THEN <<>>
    ELSE ExamplePair(Head(rows)) \o FlattenPairs(Tail(rows))

\* Mutant of MessagesFor: the article goes in front of the examples.
MessagesArticleFirst(fn, article, examples) ==
    IF fn = "fewshot_classify"
    THEN <<Message("system", "input_text", system_prompt)>>
         \o <<Message("user", "input_text", article)>> \o examples
    ELSE << Message("system", "input_text", system_prompt),
            Message("user", "input_text", article) >>

\* The input of the request: zeroshot_classify sends the system prompt and
\* the article; fewshot_classify sends the system prompt + few_shot_examples
\* + the article.
MessagesFor(fn, article, examples) ==
    IF fn = "fewshot_classify"
    THEN <<Message("system", "input_text", system_prompt)>>
         \o examples \o <<Message("user", "input_text", article)>>
    ELSE << Message("system", "input_text", system_prompt),
            Message("user", "input_text", article) >>

\* The example files: up to MaxExamples rows of an article and a label.
ExampleRows == [bodyContent : ArticleTexts, label : {0, 1}]

ExampleFrames == UNION { [1..n -> ExampleRows] : n \in 0..MaxExamples }

\* The article files: up to MaxRows articles.
Bodies == UNION { [1..n -> ArticleTexts] : n \in 0..MaxRows }

\* What the service answers inside a batch.
BatchReplies ==
    { <<"{", "\"classification\"", ":", "1", "}">>,
      <<"{", "\"classification\"", ":", "2", "}">>,
      <<"{", "\"label\"", ":", "1", "}">> }

\* ----------------------------------------------------- Series.apply
\* Mutant of RowText: apply walks the column from the last row.
RowTextReversed(body, i) == body[Len(body) + 1 - i]

\* The element Series.apply hands to the function at its i-th call.
RowText(body, i) == body[i]

\* Mutant of AfterCall: an exception is caught, None stands for the row.
AfterCallSkipping(results, r) ==
    [failed |-> FALSE,
     results |-> Append(results, IF r.err # "none" THEN Null ELSE r.value)]

\* Series.apply after one call of the function: an exception leaves apply,
\* and the values collected so far go with it; a value is collected.
AfterCall(results, r) ==
    IF r.err # "none" THEN [failed |-> TRUE, results |-> <<>>]
    ELSE [failed |-> FALSE, results |-> Append(results, r.value)]

\* Mutant of SetColumn: the column is assigned whatever apply got to.
SetColumnAlways(frame, target, o) ==
    [frame EXCEPT !.columns[target] = [bound |-> TRUE, values |-> o.results]]

\* frame[target] = frame['bodyContent'].apply(...): the assignment runs when
\* apply has returned its values.
SetColumn(frame, target, o) ==
    IF o.failed THEN frame
    ELSE [frame EXCEPT !.columns[target] = [bound |-> TRUE, values |-> o.results]]

\* The three batch statements of the notebook.
ZeroShotBatch == [frame |-> "labeled_df", target |-> "predicted_zero-shot",
                  fn |-> "zeroshot_classify"]

FewShotBatch == [frame |-> "labeled_df", target |-> "predicted_few-shot",
                 fn |-> "fewshot_classify"]

UnlabeledBatch == [frame |-> "unlabeled_df", target |-> "predicted",
                   fn |-> "zeroshot_classify"]

Batches == {ZeroShotBatch, FewShotBatch, UnlabeledBatch}

\* ------------------------------------- floating point, scaled down
\* A stored number of the embedding cells is a multiple of 1/Unit, and every
\* operation rounds its exact result to the nearest such number, ties to
\* even, as IEEE arithmetic rounds to the nearest float.
Unit == 100

\* The spacing of the stored numbers: one unit in the last place.
Ulp == 1

Abs(x) == IF x < 0 THEN -x ELSE x

\* a / b rounded to the nearest integer, ties to even; b > 0.
RoundDiv(a, b) ==
    LET q == Abs(a) \div b
        r == Abs(a) % b
        m == IF 2 * r > b \/ (2 * r = b /\ q % 2 = 1) THEN q + 1 ELSE q
    IN  IF a < 0 THEN -m ELSE m

\* The largest r in lo..hi with r * r <= n (lo * lo <= n).
RECURSIVE FloorSqrt(_, _, _)
FloorSqrt(n, lo, hi) ==
    IF lo = hi THEN lo
    ELSE LET mid == (lo + hi + 1) \div 2
         IN  IF mid * mid <= n THEN FloorSqrt(n, mid, hi)
             ELSE FloorSqrt(n, lo, mid - 1)

\* sqrt(n) rounded to the nearest integer.
RoundSqrt(n) ==
    LET r == FloorSqrt(n, 0, n)
    IN  IF n - r * r <= r THEN r ELSE r + 1

Dot(a, b) == SumSeq([ j \in DOMAIN a |-> a[j] * b[j] ])

\* The components an embedding takes, and the embeddings of the documents.
Components == {-2, -1, 0, 1, 2}

Vectors == [1..EmbDim -> Components]

EmbeddingSets == UNION { [1..n -> Vectors] : n \in 0..MaxVectors }

\* np.sqrt(row_norms(X, squared=True)), in units of 1/Unit.
RowNorm(v) == RoundSqrt(Dot(v, v) * Unit * Unit)

\* Mutant of Normalize: the row is left as it is.
NormalizeSkipped(v) == [ j \in DOMAIN v |-> v[j] * Unit ]

\* sklearn.preprocessing.normalize(X) on one row, in units of 1/Unit: the
\* row divided by its norm; a zero norm is replaced by 1.
Normalize(v) ==
    IF Dot(v, v) = 0 THEN [ j \in DOMAIN v |-> 0 ]
    ELSE [ j \in DOMAIN v |-> RoundDiv(v[j] * Unit * Unit, RowNorm(v)) ]

\* Mutant of Cosine: only the first row is normalised.
CosineLeftNorm(a, b) == RoundDiv(Dot(Normalize(a), NormalizeSkipped(b)), Unit)

\* One entry of cosine_similarity: the product of the two normalised rows,
\* in units of 1/Unit.
Cosine(a, b) == RoundDiv(Dot(Normalize(a), Normalize(b)), Unit)

\* sklearn.metrics.pairwise.cosine_similarity(M), each row against each row.
cosine_similarity(M) ==
    [ i \in DOMAIN M |-> [ j \in DOMAIN M |-> Cosine(M[i], M[j]) ] ]

\* ------------------------------------------- pandas / numpy / sklearn
\* Mutant of Iloc: negative positions are out of range.
IlocNoWrap(n, i) == IF 0 <= i /\ i < n THEN i ELSE -1

\* DataFrame.iloc[i] on n rows: the row number, or -1 for an IndexError.
\* Negative positions count from the end, as everywhere in Python.
Iloc(n, i) ==
    IF 0 <= i /\ i < n THEN i
    ELSE IF -n <= i /\ i < 0 THEN n + i
    ELSE -1

\* Mutant of PySliceFrom: the sign of the start is lost, a[-|s|:].
PySliceFromAbs(a, s) ==
    LET n == Len(a)
        m == IF s < 0 THEN -s ELSE s
    IN  SubSeq(a, (IF m > n THEN 0 ELSE n - m) + 1, n)

\* a[s:] of a Python sequence.
PySliceFrom(a, s) ==
    LET n == Len(a)
        start == IF s < 0 THEN (IF n + s < 0 THEN 0 ELSE n + s)
                 ELSE (IF s > n THEN n ELSE s)
    IN  SubSeq(a, start + 1, n)

\* a[::-1]
Reverse(a) == [ i \in DOMAIN a |-> a[Len(a) + 1 - i] ]

Perms(n) == { p \in [1..n -> 1..n] : \A i, j \in 1..n : i # j => p[i] # p[j] }

\* ndarray.argsort(), kind='quicksort': positions (from 0) in ascending order
\* of value; the sort is not stable, so equal values come in any order.
ArgSorts(a) ==
    { [ i \in DOMAIN a |-> p[i] - 1 ] :
        p \in { q \in Perms(Len(a)) :
                  \A i, j \in DOMAIN a : i < j => ~Less(a[q[j]], a[q[i]]) } }

\* Mutant of Cosine2: the norms divide unguarded, 0/0 is NaN (<<0, 0>>).
Cosine2NaN(a, b) ==
    IF a.n2 = 0 \/ b.n2 = 0 THEN <<0, 0>>
    ELSE LET dot == SumSeq([ j \in DOMAIN a.w |-> a.w[j] * b.w[j] ])
         IN  Frac(dot * dot, a.n2 * b.n2)

\* sklearn.metrics.pairwise.cosine_similarity of two rows: both rows are
\* L2-normalised (a zero row stays zero) and multiplied.  Squared.
Cosine2(a, b) ==
    IF a.n2 = 0 \/ b.n2 = 0 THEN <<0, 1>>
    ELSE LET dot == SumSeq([ j \in DOMAIN a.w |-> a.w[j] * b.w[j] ])
         IN  Frac(dot * dot, a.n2 * b.n2)

\* cosine_similarity(tfidf_df.iloc[0].values.reshape(1, -1), tfidf_df.iloc[1:].values)[0]:
\* entry p (from 0) compares the first row with row p + 1.
SimilarityToRest(rows) ==
    [ p \in 1..(Len(rows) - 1) |-> Cosine2(rows[QueryIndex + 1], rows[p + 1]) ]

\* tfidf_sim[0].argsort()[-k:][::-1], for each order argsort may return.
TopIndices(sim, k) == { Reverse(PySliceFrom(o, -k)) : o \in ArgSorts(sim) }

\* covid_df.iloc[indices]: the rows of covid_df the titles are read from.
Lookup(n, indices) == [ i \in DOMAIN indices |-> Iloc(n, indices[i]) ]

RECURSIVE InsertDesc(_, _)
InsertDesc(x, s) ==
    IF s = <<>> THEN <<x>>
    ELSE IF Less(Head(s), x) THEN <<x>> \o s
    ELSE <<Head(s)>> \o InsertDesc(x, Tail(s))

RECURSIVE SortDesc(_)
SortDesc(s) == IF s = <<>> THEN <<>> ELSE InsertDesc(Head(s), SortDesc(Tail(s)))

\* Series.sort_values(ascending=False) of a row: its values (squared), largest first.
SortValues(row) == SortDesc([ j \in DOMAIN row.w |-> Entry2(row, j) ])

\* ------------------------------------------------------- state tuples
\* The state of the TF-IDF cells, of the token-count cells, and the rest.
tfidfVars == <<data, defined, covid_df, vocabulary_, idf_, tfidf_df, tfidf_sim,
               tfidf_top5_indices, call, out, err>>

countVars == <<financial_headlines, tokens, df>>

embVars == <<embeddings, cosine_sim>>

fitVars == <<pending, vocabulary, feature_counters, X>>

llmVars == <<in_flight, output_text, prediction, messages>>

batchVars == <<few_shot_examples_df, few_shot_examples, labeled_df, unlabeled_df, batch>>

nerVars == <<bookdoc, entity_sets, edges, weights, max_weight, widths>>

vars == <<tfidfVars, countVars, embVars, fitVars, llmVars, batchVars, nerVars>>

\* What the TF-IDF cells never touch.
notTfidf == <<countVars, embVars, fitVars, llmVars, batchVars, nerVars>>

index == <<covid_df, vocabulary_, idf_, tfidf_df>>

\* out.idx: the row of tfidf_df a "row" display shows.
NoOut == [kind |-> "none", idx |-> 0, val |-> <<>>]

\* No frame: the value of a name the kernel does not hold.
NoFrame == [bound |-> FALSE, columns |-> <<>>, rows |-> <<>>]

CountIdle ==
    /\ financial_headlines = <<>>
    /\ tokens = <<>>
    /\ df = NoFrame

\* The TF-IDF notebook before any of its cells has run, on no data.
TfidfIdle ==
    /\ data = <<>>
    /\ defined = {}
    /\ covid_df = <<>>
    /\ vocabulary_ = <<>>
    /\ idf_ = <<>>
    /\ tfidf_df = <<>>
    /\ tfidf_sim = <<>>
    /\ tfidf_top5_indices = <<>>
    /\ call = [cell |-> "none", arg |-> 0]
    /\ out = [kind |-> "none", idx |-> 0, val |-> <<>>]
    /\ err = "none"

\* What a cell of another notebook leaves alone of the TF-IDF state: all but
\* the record of the last call and of its exception.
tfidfData == <<data, defined, covid_df, vocabulary_, idf_, tfidf_df, tfidf_sim,
               tfidf_top5_indices, out>>

EmbIdle ==
    /\ embeddings = <<>>
    /\ cosine_sim = <<>>

\* No matrix: fit_transform has not returned.
NoMatrix == [bound |-> FALSE, names |-> <<>>, rows |-> <<>>, df |-> <<>>]

FitIdle ==
    /\ pending = {}
    /\ vocabulary = <<>>
    /\ feature_counters = <<>>
    /\ X = NoMatrix

\* What the token-count cells never touch.
notCount == <<tfidfData, embVars, fitVars, llmVars, batchVars, nerVars>>

\* What the embedding cells never touch.
notEmb == <<tfidfData, countVars, fitVars, llmVars, batchVars, nerVars>>

\* What the steps of fit_transform never touch.
notFit == <<tfidfData, countVars, embVars, llmVars, batchVars, nerVars>>

\* What the classification calls never touch.
notLlm == <<tfidfData, countVars, embVars, fitVars, nerVars>>

\* What a Series.apply of a classify function never touches.
notBatch == <<tfidfData, countVars, embVars, fitVars, nerVars>>

\* What the entity network cells never touch.
notNer == <<data, covid_df, vocabulary_, idf_, tfidf_df, tfidf_sim, tfidf_top5_indices,
            out, financial_headlines, tokens, embVars, fitVars, llmVars, batchVars>>

LlmIdle ==
    /\ in_flight = "none"
    /\ output_text = <<>>
    /\ prediction = Null
    /\ messages = <<>>

\* A column a dataframe does not have.
NoColumn == [bound |-> FALSE, values |-> <<>>]

\* No Series.apply has been started.
NoBatch == [state |-> "idle", frame |-> "none", target |-> "none", fn |-> "none",
            sent |-> <<>>, replies |-> <<>>, results |-> <<>>]

\* pd.read_csv(...) of a file with the articles body.
Frame(body, names) == [bodyContent |-> body, columns |-> [ c \in names |-> NoColumn ]]

\* The name few_shot_examples bound to a list of messages, and not bound.
Bound(list) == [bound |-> TRUE, list |-> list]

Unbound == [bound |-> FALSE, list |-> <<>>]

\* The examples cell has run on a file without rows.
BatchIdle ==
    /\ few_shot_examples_df = <<>>
    /\ few_shot_examples = Bound(<<>>)
    /\ labeled_df = Frame(<<>>, {"predicted_zero-shot", "predicted_few-shot"})
    /\ unlabeled_df = Frame(<<>>, {"predicted"})
    /\ batch = NoBatch

\* No book read, no entity network cell run.
NerIdle ==
    /\ bookdoc = <<>>
    /\ entity_sets = <<>>
    /\ edges = <<>>
    /\ weights = <<>>
    /\ max_weight = 0
    /\ widths = <<>>

Init ==
    /\ CountIdle
    /\ EmbIdle
    /\ FitIdle
    /\ LlmIdle
    /\ BatchIdle
    /\ NerIdle
    /\ data \in Corpora
    /\ defined = {}
    /\ covid_df = <<>>
    /\ vocabulary_ = <<>>
    /\ idf_ = <<>>
    /\ tfidf_df = <<>>
    /\ tfidf_sim = <<>>
    /\ tfidf_top5_indices = <<>>
    /\ call = [cell |-> "none", arg |-> 0]
    /\ out = NoOut
    /\ err = "none"

\* 02-text-embeddings.ipynb, the cell that reads covid_stories.csv and fits
\* the vectorizer.  fit_transform raises before X is bound, so the cell
\* stops there: covid_df and a fresh, unfitted vectorizer are all it leaves.
FitCell ==
    /\ call' = [cell |-> "fit", arg |-> 0]
    /\ covid_df' = data
    /\ IF EmptyVocabulary(data)
       THEN /\ defined' = defined \cup {"covid_df", "vectorizer"}
            /\ vocabulary_' = <<>>
            /\ idf_' = <<>>
            /\ tfidf_df' = tfidf_df
            /\ out' = [kind |-> "covid_df", idx |-> 0, val |-> <<>>]
            /\ err' = "ValueError"
       ELSE LET names == FeatureNames(data) IN
            /\ defined' = defined \cup {"covid_df", "vectorizer", "X", "tfidf_df"}
            /\ vocabulary_' = names
            /\ idf_' = [ j \in DOMAIN names |-> Idf(names[j], data) ]
            /\ tfidf_df' = [ d \in DOMAIN data |-> TfidfRow(data[d], data, names) ]
            /\ out' = [kind |-> "tfidf_df", idx |-> 0, val |-> <<>>]
            /\ err' = "none"
    /\ UNCHANGED <<data, tfidf_sim, tfidf_top5_indices>>
    /\ UNCHANGED notTfidf

\* A cell that reads a name the kernel does not hold.
NameError ==
    /\ err' = "NameError"
    /\ out' = NoOut
    /\ UNCHANGED <<data, defined, covid_df, vocabulary_, idf_, tfidf_df,
                   tfidf_sim, tfidf_top5_indices>>

\* Mutant of RowCell: the row is sorted where it is stored (inplace=True).
RowCellInPlace(i) ==
    /\ call' = [cell |-> "row", arg |-> i]
    /\ UNCHANGED notTfidf
    /\ IF "tfidf_df" \notin defined THEN NameError
       ELSE LET d == Iloc(Len(tfidf_df), i) IN
            IF d = -1
            THEN /\ err' = "IndexError"
                 /\ out' = NoOut
                 /\ UNCHANGED <<data, defined, covid_df, vocabulary_, idf_, tfidf_df,
                                tfidf_sim, tfidf_top5_indices>>
            ELSE LET row == tfidf_df[d + 1]
                     srt == SortDesc([ j \in DOMAIN row.w |-> <<row.w[j], 1>> ])
                 IN  /\ err' = "none"
                     /\ out' = [kind |-> "row", idx |-> d, val |-> SortValues(row)]
                     /\ tfidf_df' = [tfidf_df EXCEPT
                            ![d + 1] = [row EXCEPT !.w = [ j \in DOMAIN srt |-> srt[j][1] ]]]
                     /\ UNCHANGED <<data, defined, covid_df, vocabulary_, idf_,
                                    tfidf_sim, tfidf_top5_indices>>

\* 02-text-embeddings.ipynb: tfidf_df.index[i], tfidf_df.iloc[i].sort_values(...)
\* (the notebook's i is 0).
RowCell(i) ==
    /\ call' = [cell |-> "row", arg |-> i]
    /\ UNCHANGED notTfidf
    /\ IF "tfidf_df" \notin defined THEN NameError
       ELSE LET d == Iloc(Len(tfidf_df), i) IN
            /\ IF d = -1
               THEN /\ err' = "IndexError"
                    /\ out' = NoOut
               ELSE /\ err' = "none"
                    /\ out' = [kind |-> "row", idx |-> d,
                               val |-> SortValues(tfidf_df[d + 1])]
            /\ UNCHANGED <<data, defined, covid_df, vocabulary_, idf_, tfidf_df,
                           tfidf_sim, tfidf_top5_indices>>

\* 05-exercise-answers.ipynb: tfidf_sim = cosine_similarity(...); display(tfidf_sim).
\* check_pairwise_arrays raises ValueError for tfidf_df.iloc[1:] without rows.
SimCell ==
    /\ call' = [cell |-> "sim", arg |-> 0]
    /\ UNCHANGED notTfidf
    /\ IF "tfidf_df" \notin defined THEN NameError
       ELSE IF Len(tfidf_df) < 2
       THEN /\ err' = "ValueError"
            /\ out' = NoOut
            /\ UNCHANGED <<data, defined, covid_df, vocabulary_, idf_, tfidf_df,
                           tfidf_sim, tfidf_top5_indices>>
       ELSE /\ tfidf_sim' = SimilarityToRest(tfidf_df)
            /\ defined' = defined \cup {"tfidf_sim"}
            /\ out' = [kind |-> "tfidf_sim", idx |-> 0, val |-> tfidf_sim']
            /\ err' = "none"
            /\ UNCHANGED <<data, covid_df, vocabulary_, idf_, tfidf_df,
                           tfidf_top5_indices>>

\* 05-exercise-answers.ipynb: tfidf_top5_indices = tfidf_sim[0].argsort()[-k:][::-1];
\* covid_df.iloc[tfidf_top5_indices]['webTitle'] (the notebook's k is 5).
TopCell(k) ==
    /\ call' = [cell |-> "top", arg |-> k]
    /\ UNCHANGED notTfidf
    /\ IF "tfidf_sim" \notin defined THEN NameError
       ELSE \E t \in TopIndices(tfidf_sim, k) :
            /\ tfidf_top5_indices' = t
            /\ defined' = defined \cup {"tfidf_top5_indices"}
            /\ out' = [kind |-> "titles", idx |-> 0, val |-> Lookup(Len(covid_df), t)]
            /\ err' = "none"
            /\ UNCHANGED <<data, covid_df, vocabulary_, idf_, tfidf_df, tfidf_sim>>

KValues == (-MaxK .. MaxK) \cup {TopN}

\* The retrieval exercise: build the index, then rank against the first story.
Next ==
    \/ FitCell
    \/ SimCell
    \/ \E k \in KValues : TopCell(k)

Spec == Init /\ [][Next]_vars

\* Building the index and looking rows up.
RowNext ==
    \/ FitCell
    \/ \E i \in -MaxIndex .. MaxIndex : RowCell(i)

RowSpec == Init /\ [][RowNext]_vars

\* The cells as the notebooks have them: build, show the first row, compare
\* the first story with the rest, pick the five most similar.
QueryNext ==
    \/ FitCell
    \/ RowCell(QueryIndex)
    \/ SimCell
    \/ TopCell(TopN)

QuerySpec == Init /\ [][QueryNext]_vars

\* ------------------------------------- 01-foundations: token counts
CountInit ==
    /\ TfidfIdle
    /\ EmbIdle
    /\ FitIdle
    /\ LlmIdle
    /\ BatchIdle
    /\ NerIdle
    /\ financial_headlines \in RawCorpora
    /\ tokens = <<>>
    /\ df = NoFrame

\* tokens = [token.lemma_.lower() for token in doc
\*           if not token.is_stop and not token.is_punct], doc being text d.
TokensCell(d) ==
    /\ d \in DOMAIN financial_headlines
    /\ call' = [cell |-> "tokens", arg |-> d]
    /\ tokens' = spacy_tokenizer(financial_headlines[d])
    /\ err' = "none"
    /\ UNCHANGED <<notCount, financial_headlines, df>>

\* vectorizer = CountVectorizer(tokenizer=spacy_tokenizer)
\* X = vectorizer.fit_transform(financial_headlines)
\* df = pd.DataFrame(X.toarray(), columns=vectorizer.get_feature_names_out())
CountCell ==
    /\ call' = [cell |-> "count", arg |-> 0]
    /\ LET docs == [ d \in DOMAIN financial_headlines |->
                       spacy_tokenizer(financial_headlines[d]) ]
           names == FeatureNames(docs)
       IN  IF EmptyVocabulary(docs)
           THEN /\ err' = "ValueError"
                /\ df' = df
           ELSE /\ err' = "none"
                /\ df' = [bound |-> TRUE, columns |-> names,
                          rows |-> [ d \in DOMAIN docs |-> CountRow(docs[d], names) ]]
    /\ UNCHANGED <<notCount, financial_headlines, tokens>>

CountNext ==
    \/ \E d \in 1..MaxDocs : TokensCell(d)
    \/ CountCell

CountSpec == CountInit /\ [][CountNext]_vars

\* ------------------------- 02-text-embeddings: pairwise similarities
EmbInit ==
    /\ TfidfIdle
    /\ CountIdle
    /\ FitIdle
    /\ LlmIdle
    /\ BatchIdle
    /\ NerIdle
    /\ embeddings \in EmbeddingSets
    /\ cosine_sim = <<>>

\* cosine_sim = cosine_similarity(embeddings.cpu().numpy())
\* cosine_sim_df = pd.DataFrame(cosine_sim, index=documents, columns=documents)
CosineCell ==
    /\ call' = [cell |-> "cosine", arg |-> 0]
    /\ IF embeddings = <<>>
       THEN /\ err' = "ValueError"
            /\ cosine_sim' = cosine_sim
       ELSE /\ err' = "none"
            /\ cosine_sim' = cosine_similarity(embeddings)
    /\ UNCHANGED <<notEmb, embeddings>>

EmbNext == CosineCell

EmbSpec == EmbInit /\ [][EmbNext]_vars

\* ------------------- fit_transform, one document at a time, any order
\* The counting loop of CountVectorizer._count_vocab, with the order in which
\* the documents are taken left open, then the sorting of the features and
\* the document frequencies of TfidfTransformer.fit.
StepInit ==
    /\ CountIdle
    /\ EmbIdle
    /\ LlmIdle
    /\ BatchIdle
    /\ NerIdle
    /\ data \in Corpora
    /\ defined = {}
    /\ covid_df = <<>>
    /\ vocabulary_ = <<>>
    /\ idf_ = <<>>
    /\ tfidf_df = <<>>
    /\ tfidf_sim = <<>>
    /\ tfidf_top5_indices = <<>>
    /\ call = [cell |-> "none", arg |-> 0]
    /\ out = NoOut
    /\ err = "none"
    /\ pending = DOMAIN data
    /\ vocabulary = <<>>
    /\ feature_counters = [ d \in DOMAIN data |-> <<>> ]
    /\ X = NoMatrix

\* for doc in raw_documents: feature_counter[vocabulary[feature]] += 1 for
\* every token; a token not seen before gets the next free index.
CountDoc(d) ==
    /\ d \in pending
    /\ call' = [cell |-> "count_doc", arg |-> d]
    /\ err' = "none"
    /\ pending' = pending \ {d}
    /\ vocabulary' = vocabulary \o Dedup(data[d], Range(vocabulary))
    /\ LET terms == Dedup(data[d], {})
       IN  feature_counters' = [feature_counters EXCEPT ![d] =
               [ i \in DOMAIN terms |->
                   <<PositionIn(vocabulary', terms[i]) - 1, Count(terms[i], data[d])>> ]]
    /\ UNCHANGED <<notFit, X>>

\* After the loop: ValueError for an empty vocabulary; else the features are
\* sorted, the indices of the counts mapped, and df counted per column.
FinishFit ==
    /\ pending = {}
    /\ ~X.bound
    /\ call' = [cell |-> "finish_fit", arg |-> 0]
    /\ IF vocabulary = <<>>
       THEN /\ err' = "ValueError"
            /\ X' = X
       ELSE LET names == SortFeatures(vocabulary)
                rows == [ d \in DOMAIN feature_counters |->
                            [ j \in DOMAIN names |->
                                ColumnCount(feature_counters[d], vocabulary, names, j - 1) ] ]
            IN  /\ err' = "none"
                /\ X' = [bound |-> TRUE, names |-> names, rows |-> rows,
                         df |-> [ j \in DOMAIN names |->
                                   Cardinality({ d \in DOMAIN rows : rows[d][j] > 0 }) ]]
    /\ UNCHANGED <<notFit, pending, vocabulary, feature_counters>>

StepNext ==
    \/ \E d \in 1..MaxDocs : CountDoc(d)
    \/ FinishFit

StepSpec == StepInit /\ [][StepNext]_vars

\* ------------------------------ 04-applying-sota-nlp: classification
LlmInit ==
    /\ TfidfIdle
    /\ CountIdle
    /\ EmbIdle
    /\ FitIdle
    /\ LlmIdle
    /\ BatchIdle
    /\ NerIdle

ClassifyFunctions == {"zeroshot_classify", "fewshot_classify"}

\* response = client.responses.create(...): the function fn is entered and
\* its request goes to the service.
Create(fn) ==
    /\ in_flight = "none"
    /\ in_flight' = fn
    /\ call' = [cell |-> fn, arg |-> 0]
    /\ err' = "none"
    /\ output_text' = <<>>
    /\ prediction' = Null
    /\ \E article \in ArticleTexts :
           messages' = MessagesFor(fn, article, few_shot_examples.list)
    /\ UNCHANGED <<notLlm, batchVars>>

\* The service has answered with some text:
\* return json.loads(response.output_text)['classification'].
Return(fn) ==
    /\ in_flight = fn
    /\ in_flight' = "none"
    /\ \E t \in Responses :
           /\ output_text' = t
           /\ err' = Classification(t).err
           /\ prediction' = Classification(t).value
    /\ UNCHANGED <<notLlm, batchVars, call, messages>>

LlmNext ==
    \/ \E fn \in ClassifyFunctions : Create(fn)
    \/ \E fn \in ClassifyFunctions : Return(fn)

LlmSpec == LlmInit /\ [][LlmNext]_vars

\* ------------------------- 04-applying-sota-nlp: batch classification
FrameOf(name) == IF name = "labeled_df" THEN labeled_df ELSE unlabeled_df

\* The dataframes after frame name has become f.
SetFrame(name, f) ==
    /\ labeled_df' = IF name = "labeled_df" THEN f ELSE labeled_df
    /\ unlabeled_df' = IF name = "labeled_df" THEN unlabeled_df ELSE f

ShortBodies == { b \in Bodies : Len(b) <= 1 }

BatchInit ==
    /\ TfidfIdle
    /\ CountIdle
    /\ EmbIdle
    /\ FitIdle
    /\ LlmIdle
    /\ few_shot_examples_df = <<>>
    /\ few_shot_examples = Bound(<<>>)
    /\ \E b \in Bodies :
           labeled_df = Frame(b, {"predicted_zero-shot", "predicted_few-shot"})
    /\ \E b \in ShortBodies : unlabeled_df = Frame(b, {"predicted"})
    /\ batch = NoBatch
    /\ NerIdle

\* frame[target] = frame['bodyContent'].apply(fn), up to the first request:
\* without rows the column is assigned at once, else fn is called on the
\* first row and its request goes out.
ApplyCell(b) ==
    /\ batch.state # "running"
    /\ in_flight = "none"
    /\ call' = [cell |-> b.target, arg |-> 0]
    /\ LET body == FrameOf(b.frame).bodyContent
           new == [state |-> "running", frame |-> b.frame, target |-> b.target,
                   fn |-> b.fn, sent |-> <<>>, replies |-> <<>>, results |-> <<>>]
       IN  IF b.fn = "fewshot_classify" /\ ~few_shot_examples.bound
           THEN /\ err' = "NameError"
                /\ UNCHANGED <<llmVars, labeled_df, unlabeled_df, batch>>
           ELSE /\ err' = "none"
                /\ IF body = <<>>
                   THEN /\ batch' = [new EXCEPT !.state = "done"]
                        /\ SetFrame(b.frame,
                                    SetColumn(FrameOf(b.frame), b.target,
                                              [failed |-> FALSE, results |-> <<>>]))
                        /\ UNCHANGED llmVars
                   ELSE /\ batch' = [new EXCEPT !.sent = <<RowText(body, 1)>>]
                        /\ in_flight' = b.fn
                        /\ messages' = MessagesFor(b.fn, RowText(body, 1),
                                                   few_shot_examples.list)
                        /\ output_text' = <<>>
                        /\ prediction' = Null
                        /\ UNCHANGED <<labeled_df, unlabeled_df>>
    /\ UNCHANGED <<notBatch, few_shot_examples_df, few_shot_examples>>

\* The service answers the request of the batch: the function returns or
\* raises; apply then stops with the exception, or calls the function on the
\* next row, or returns and the column is assigned.
BatchReturn ==
    /\ batch.state = "running"
    /\ in_flight = batch.fn
    /\ \E t \in BatchReplies :
           LET r == Classification(t)
               o == AfterCall(batch.results, r)
               body == FrameOf(batch.frame).bodyContent
               k == Len(batch.sent)
               got == [batch EXCEPT !.replies = Append(@, t), !.results = o.results]
           IN  /\ output_text' = t
               /\ prediction' = r.value
               /\ err' = r.err
               /\ IF o.failed \/ k = Len(body)
                  THEN /\ batch' = [got EXCEPT !.state = IF o.failed THEN "failed" ELSE "done"]
                       /\ in_flight' = "none"
                       /\ SetFrame(batch.frame, SetColumn(FrameOf(batch.frame), batch.target, o))
                       /\ UNCHANGED messages
                  ELSE /\ batch' = [got EXCEPT !.sent = Append(@, RowText(body, k + 1))]
                       /\ in_flight' = batch.fn
                       /\ messages' = MessagesFor(batch.fn, RowText(body, k + 1),
                                                  few_shot_examples.list)
                       /\ UNCHANGED <<labeled_df, unlabeled_df>>
    /\ UNCHANGED <<notBatch, call, few_shot_examples_df, few_shot_examples>>

BatchNext ==
    \/ \E b \in Batches : ApplyCell(b)
    \/ BatchReturn

BatchSpec == BatchInit /\ [][BatchNext]_vars

\* ------------------------ 04-applying-sota-nlp: the few-shot examples
FewShotInit ==
    /\ TfidfIdle
    /\ CountIdle
    /\ EmbIdle
    /\ FitIdle
    /\ LlmIdle
    /\ few_shot_examples_df \in ExampleFrames
    /\ few_shot_examples = Unbound
    /\ \E b \in ShortBodies :
           labeled_df = Frame(b, {"predicted_zero-shot", "predicted_few-shot"})
    /\ unlabeled_df = Frame(<<>>, {"predicted"})
    /\ batch = NoBatch
    /\ NerIdle

\* few_shot_examples = [({user message}, {assistant message}) for _, x in
\* few_shot_examples_df.iterrows()], then flattened.
ExamplesCell ==
    /\ in_flight = "none"
    /\ call' = [cell |-> "few_shot_examples", arg |-> 0]
    /\ err' = "none"
    /\ few_shot_examples' = Bound(FlattenPairs(few_shot_examples_df))
    /\ UNCHANGED <<notBatch, llmVars, few_shot_examples_df, labeled_df,
                   unlabeled_df, batch>>

FewShotNext ==
    \/ ExamplesCell
    \/ ApplyCell(FewShotBatch)
    \/ BatchReturn

FewShotSpec == FewShotInit /\ [][FewShotNext]_vars

\* ------------------------------- 01-foundations: the entity network
\* A Span of a sentence: its text, its label and where it starts.  Two
\* mentions with the same text are two Spans.
Ent(text, label, start) == [text |-> text, label |-> label, start |-> start]

\* sent.ents of the sentences a book is made of.
Sentences ==
    { <<>>,
      <<Ent("Alice", "PERSON", 1)>>,
      <<Ent("Alice", "PERSON", 1), Ent("Bob", "PERSON", 2)>>,
      <<Ent("London", "GPE", 1), Ent("Alice", "PERSON", 2)>>,
      <<Ent("Alice", "PERSON", 1), Ent("Bob", "PERSON", 2), Ent("Alice", "PERSON", 3)>>,
      <<Ent("Alice", "PERSON", 1), Ent("Alice", "PERSON", 2)>> }

Books == UNION { [1..n -> Sentences] : n \in 0..MaxSents }

\* Mutant of Ents: the answer's filter is left out.
EntsUnfiltered(sent, person) == { sent[i] : i \in DOMAIN sent }

\* set(sent.ents), and in the exercise answer
\* set([ent for ent in sent.ents if ent.label_ == 'PERSON']).
Ents(sent, person) ==
    { sent[i] : i \in { j \in DOMAIN sent : ~person \/ sent[j].label = "PERSON" } }

\* The sets appended to entity_sets: those of more than one Span, in
\* sentence order.
RECURSIVE EntityGroups(_, _)
EntityGroups(doc, person) ==
    IF doc = <<>> THEN <<>>
    ELSE LET entities == Ents(Head(doc), person)
             rest == EntityGroups(Tail(doc), person)
         IN  IF Cardinality(entities) > 1 THEN <<entities>> \o rest ELSE rest

\* The orders in which a set may iterate: a set has no order of its own.
Orders(S) ==
    { o \in [1..Cardinality(S) -> S] : \A x \in S : \E i \in DOMAIN o : o[i] = x }

\* The groups, each with the order it iterates in.
RECURSIVE Iterations(_)
Iterations(groups) ==
    IF groups = <<>> THEN {<<>>}
    ELSE { <<o>> \o rest : o \in Orders(Head(groups)), rest \in Iterations(Tail(groups)) }

\* edges is a dict: its items in insertion order, key = (text, text).
HasKey(d, k) == \E i \in DOMAIN d : d[i].key = k

\* d[k] += 1
Increment(d, k) ==
    [ i \in DOMAIN d |-> IF d[i].key = k THEN [d[i] EXCEPT !.weight = @ + 1] ELSE d[i] ]

\* Mutant of CountPair: the pair is looked up in the order met only.
CountPairOneOrder(d, t1, t2) ==
    IF HasKey(d, <<t1, t2>>) THEN Increment(d, <<t1, t2>>)
    ELSE Append(d, [key |-> <<t1, t2>>, weight |-> 1])

\* The body of the two loops for one pair of texts.
CountPair(d, t1, t2) ==
    IF HasKey(d, <<t1, t2>>) THEN Increment(d, <<t1, t2>>)
    ELSE IF HasKey(d, <<t2, t1>>) THEN Increment(d, <<t2, t1>>)
    ELSE Append(d, [key |-> <<t1, t2>>, weight |-> 1])

\* for n, entity1 in enumerate(entity_set): for m, entity2 in
\* enumerate(entity_set): p counts the (n, m) done, n = p div len, m = p mod len.
RECURSIVE CountSet(_, _, _)
CountSet(d, entity_set, p) ==
    LET len == Len(entity_set)
        n == p \div len
        m == p % len
        entity1 == entity_set[n + 1]
        entity2 == entity_set[m + 1]
    IN  IF p >= len * len THEN d
        ELSE CountSet(IF (m > n) /\ (entity1.text # entity2.text)
                      THEN CountPair(d, entity1.text, entity2.text)
                      ELSE d,
                      entity_set, p + 1)

\* for entity_set in entity_sets
RECURSIVE CountSets(_, _)
CountSets(d, sets) ==
    IF sets = <<>> THEN d ELSE CountSets(CountSet(d, Head(sets), 0), Tail(sets))

\* df.sort_values(by='weight', ascending=False) of the rows (entity1,
\* entity2, weight): the default sort is not stable, rows of equal weight
\* come in any order.
ByWeight(d) ==
    { [ i \in DOMAIN d |-> <<d[q[i]].key[1], d[q[i]].key[2], d[q[i]].weight>> ] :
        q \in { r \in Perms(Len(d)) :
                  \A i, j \in DOMAIN d : i < j => d[r[i]].weight >= d[r[j]].weight } }

\* df.head(n)
PyHead(rows, n) == SubSeq(rows, 1, IF Len(rows) < n THEN Len(rows) ELSE n)

\* G.nodes of nx.from_pandas_edgelist(rows): in order of first mention.
Nodes(rows) == Dedup(Flatten([ i \in DOMAIN rows |-> <<rows[i][1], rows[i][2]>> ]), {})

\* G.adj[u]: the neighbours of u in the order their edges were added.
Neighbours(rows, u) ==
    Dedup(Flatten([ i \in DOMAIN rows |->
                      IF rows[i][1] = u THEN <<rows[i][2]>>
                      ELSE IF rows[i][2] = u THEN <<rows[i][1]>>
                      ELSE <<>> ]), {})

\* G[u][v]['weight']: the last row of the pair sets it.
EdgeWeight(rows, u, v) ==
    LET hits == { i \in DOMAIN rows : {rows[i][1], rows[i][2]} = {u, v} }
    IN  rows[CHOOSE i \in hits : \A j \in hits : j <= i][3]

\* [d['weight'] for (_, _, d) in G.edges(data=True)]: node by node, each
\* edge at the first of its ends.
GraphWeights(rows) ==
    LET nodes == Nodes(rows)
        from(a) == SelectSeq(Neighbours(rows, nodes[a]),
                             LAMBDA v : \A b \in 1..(a - 1) : nodes[b] # v)
    IN  Flatten([ a \in DOMAIN nodes |->
                    [ k \in DOMAIN from(a) |-> EdgeWeight(rows, nodes[a], from(a)[k]) ] ])

RECURSIVE SeqMax(_)
SeqMax(s) ==
    IF Len(s) = 1 THEN s[1]
    ELSE LET rest == SeqMax(Tail(s)) IN IF Head(s) > rest THEN Head(s) ELSE rest

RECURSIVE SeqMin(_)
SeqMin(s) ==
    IF Len(s) = 1 THEN s[1]
    ELSE LET rest == SeqMin(Tail(s)) IN IF Head(s) < rest THEN Head(s) ELSE rest

\* Mutant of MaxWeight: the smallest weight is the scale.
MinWeight(w) == IF w # <<>> THEN SeqMin(w) ELSE 1

\* max(weights) if weights else 1
MaxWeight(w) == IF w # <<>> THEN SeqMax(w) ELSE 1

\* 0.1 + 6 * (w / max_weight), as the fraction (max_weight + 60 w) / (10 max_weight).
Width(w, max) == [num |-> max + 60 * w, den |-> 10 * max]

NerInit ==
    /\ TfidfIdle
    /\ CountIdle
    /\ EmbIdle
    /\ FitIdle
    /\ LlmIdle
    /\ BatchIdle
    /\ bookdoc \in Books
    /\ entity_sets = <<>>
    /\ edges = <<>>
    /\ weights = <<>>
    /\ max_weight = 0
    /\ widths = <<>>

\* The cell that builds entity_sets; person: the cell of the exercise
\* answer, which keeps the PERSON entities only.
EntitySetsCell(person) ==
    /\ call' = [cell |-> "entity_sets", arg |-> IF person THEN 1 ELSE 0]
    /\ err' = "none"
    /\ entity_sets' \in Iterations(EntityGroups(bookdoc, person))
    /\ defined' = defined \cup {"entity_sets"}
    /\ UNCHANGED <<notNer, df, bookdoc, edges, weights, max_weight, widths>>

\* The cell that counts the co-occurring pairs.  edges = {} is bound before
\* the loop reads entity_sets.
EdgesCell ==
    /\ call' = [cell |-> "edges", arg |-> 0]
    /\ IF "entity_sets" \notin defined
       THEN /\ err' = "NameError"
            /\ edges' = <<>>
       ELSE /\ err' = "none"
            /\ edges' = CountSets(<<>>, entity_sets)
    /\ defined' = defined \cup {"edges"}
    /\ UNCHANGED <<notNer, df, bookdoc, entity_sets, weights, max_weight, widths>>

\* The cell that turns edges into the dataframe df.  Without edges
\* df['index'].tolist() has no columns to expand into entity1 and entity2:
\* the assignment raises and df keeps the columns of reset_index().
EdgeListCell ==
    /\ call' = [cell |-> "edge_list", arg |-> 0]
    /\ IF "edges" \notin defined
       THEN /\ err' = "NameError"
            /\ df' = df
       ELSE IF edges = <<>>
       THEN /\ err' = "ValueError"
            /\ df' = [bound |-> TRUE, columns |-> <<"index", "weight">>, rows |-> <<>>]
       ELSE /\ err' = "none"
            /\ \E rows \in ByWeight(edges) :
                   df' = [bound |-> TRUE, columns |-> <<"entity1", "entity2", "weight">>,
                          rows |-> rows]
    /\ UNCHANGED <<notNer, defined, nerVars>>

\* The cell that draws the network, up to widths.
PlotCell ==
    /\ call' = [cell |-> "plot", arg |-> 0]
    /\ IF ~df.bound
       THEN /\ err' = "NameError"
            /\ UNCHANGED <<weights, max_weight, widths>>
       ELSE IF "entity1" \notin Range(df.columns)
       THEN /\ err' = "KeyError"
            /\ UNCHANGED <<weights, max_weight, widths>>
       ELSE LET w == GraphWeights(PyHead(df.rows, HeadRows))
                max == MaxWeight(w)
            IN  /\ weights' = w
                /\ max_weight' = max
                /\ IF w # <<>> /\ max = 0
                   THEN /\ err' = "ZeroDivisionError"
                        /\ widths' = widths
                   ELSE /\ err' = "none"
                        /\ widths' = [ i \in DOMAIN w |-> Width(w[i], max) ]
    /\ UNCHANGED <<notNer, defined, df, bookdoc, entity_sets, edges>>

NerNext ==
    \/ \E person \in BOOLEAN : EntitySetsCell(person)
    \/ EdgesCell

NerSpec == NerInit /\ [][NerNext]_vars

\* The dicts the edges cell can leave behind.
EdgeDicts ==
    UNION { { CountSets(<<>>, sets) : sets \in Iterations(EntityGroups(doc, FALSE)) } :
              doc \in Books }

\* The state after the edges cell: the cells that follow read edges only.
PlotInit ==
    /\ CountIdle
    /\ EmbIdle
    /\ FitIdle
    /\ LlmIdle
    /\ BatchIdle
    /\ data = <<>>
    /\ defined = {"entity_sets", "edges"}
    /\ covid_df = <<>>
    /\ vocabulary_ = <<>>
    /\ idf_ = <<>>
    /\ tfidf_df = <<>>
    /\ tfidf_sim = <<>>
    /\ tfidf_top5_indices = <<>>
    /\ call = [cell |-> "edges", arg |-> 0]
    /\ out = NoOut
    /\ err = "none"
    /\ bookdoc = <<>>
    /\ entity_sets = <<>>
    /\ edges \in EdgeDicts
    /\ weights = <<>>
    /\ max_weight = 0
    /\ widths = <<>>

PlotNext ==
    \/ EdgeListCell
    \/ PlotCell

PlotSpec == PlotInit /\ [][PlotNext]_vars

\* ------------------------------------------------------------ claims
Min(a, b) == IF a < b THEN a ELSE b

\* The documents a query may return: all but the query itself.
Others == (0 .. Len(covid_df) - 1) \ {QueryIndex}

\* The similarity of document d to the query document, from the index.
DocScore(d) == Cosine2(tfidf_df[QueryIndex + 1], tfidf_df[d + 1])

\* C1: the titles shown by the top-k cell never include the query document
\* (row QueryIndex of covid_df) itself.
NoSelfInResults ==
    out.kind = "titles" => \A i \in DOMAIN out.val : out.val[i] # QueryIndex

\* C2: for k >= 0 the documents shown are the k highest-scoring other
\* documents, in descending order of score, equal scores in ascending order
\* of document index.
TopKRankedTiesAscending ==
    (out.kind = "titles" /\ call.arg >= 0) =>
        LET r == out.val IN
        /\ Len(r) = Min(call.arg, Len(covid_df) - 1)
        /\ \A i \in DOMAIN r : r[i] \in Others
        /\ \A i, j \in DOMAIN r : i < j =>
              /\ r[i] # r[j]
              /\ ~Less(DocScore(r[i]), DocScore(r[j]))
              /\ DocScore(r[i]) = DocScore(r[j]) => r[i] < r[j]
        /\ \A d \in Others \ Range(r) : \A i \in DOMAIN r :
              ~Less(DocScore(r[i]), DocScore(d))

ToyCorpus == << <<"cat", "sat">>, <<"dog", "sat">>, <<"cat", "ran">> >>

\* C3: on the corpus [cat,sat], [dog,sat], [cat,ran] the vocabulary is cat:0,
\* sat:1, dog:2, ran:3, the document frequencies are 2, 2, 1, 1, documents 1
\* and 2 are equally similar to document 0, and the top 1 is document 1.
ToyScenario ==
    data = ToyCorpus =>
        /\ "tfidf_df" \in defined =>
              /\ vocabulary_ = <<"cat", "sat", "dog", "ran">>
              /\ Df("cat", covid_df) = 2 /\ Df("sat", covid_df) = 2
              /\ Df("dog", covid_df) = 1 /\ Df("ran", covid_df) = 1
              /\ DocScore(1) = DocScore(2)
        /\ (out.kind = "titles" /\ call.arg = 1) => out.val = <<1>>

\* C4: with k >= N-1 the top-k cell raises nothing and shows exactly the N-1
\* other documents, each once.
ClampReturnsAllOthers ==
    (call.cell = "top" /\ "tfidf_sim" \in defined /\ call.arg >= Len(covid_df) - 1) =>
        /\ err = "none"
        /\ out.kind = "titles"
        /\ Len(out.val) = Len(covid_df) - 1
        /\ Range(out.val) = Others

BuildAllOrNothing ==
    /\ (call.cell = "fit" /\ Len(data) = 0) => err = "ValueError"
    /\ Len(data) = 0 => "tfidf_df" \notin defined
    /\ (call.cell = "fit" /\ err # "none") => "tfidf_df" \notin defined
    /\ "tfidf_df" \notin defined =>
          /\ vocabulary_ = <<>> /\ idf_ = <<>> /\ tfidf_df = <<>>
          /\ tfidf_sim = <<>> /\ tfidf_top5_indices = <<>>
          /\ out.kind \notin {"tfidf_df", "row", "tfidf_sim", "titles"}
          /\ call.cell \in {"row", "sim", "top"} => err = "NameError"
    /\ "tfidf_df" \in defined =>
          /\ vocabulary_ # <<>>
          /\ Len(idf_) = Len(vocabulary_)
          /\ Len(tfidf_df) = Len(covid_df)
          /\ \A d \in DOMAIN tfidf_df : Len(tfidf_df[d].w) = Len(vocabulary_)

\* C7 witness: a query run after the build on an empty corpus has failed.
FailedBuildWitness ==
    /\ Len(data) = 0 /\ "vectorizer" \in defined /\ "tfidf_df" \notin defined
    /\ call.cell \in {"sim", "top"} /\ err = "NameError"

\* The (0-based) index of a feature, and where a token is first met.
IndexOf(t) == (CHOOSE j \in DOMAIN vocabulary_ : vocabulary_[j] = t) - 1

FirstPos(t) ==
    LET all == Flatten(covid_df)
    IN  CHOOSE i \in DOMAIN all :
            all[i] = t /\ \A h \in DOMAIN all : all[h] = t => i <= h

\* Python's order of two tokens.
StrLess(a, b) ==
    (CHOOSE i \in DOMAIN Alphabet : Alphabet[i] = a)
        < (CHOOSE i \in DOMAIN Alphabet : Alphabet[i] = b)

\* The features are the corpus's distinct tokens, each once, indexed 0..|V|-1.
GapFree ==
    /\ Range(vocabulary_) = Range(Flatten(covid_df))
    /\ Cardinality(Range(vocabulary_)) = Len(vocabulary_)

UniversalTermZero ==
    "tfidf_df" \in defined =>
        \A j \in DOMAIN vocabulary_ :
            Df(vocabulary_[j], covid_df) = Len(covid_df) =>
                /\ idf_[j] = 0
                /\ \A d \in DOMAIN tfidf_df : Entry2(tfidf_df[d], j) = <<0, 1>>

\* (count(t, d) / |d| * ln(N / df(t)))^2, the square of the plain TF-IDF weight.
PlainTfidf2(t, doc, docs) ==
    IF Len(doc) = 0 THEN <<0, 1>>
    ELSE LET x == Count(t, doc) * (Ln10[Len(docs)] - Ln10[Df(t, docs)])
             y == Len(doc) * 10
         IN  Frac(x * x, y * y)

\* C10: entry (d, t) is TF(t, d) * IDF(t) with TF = count / document length
\* and IDF = ln(N / df); the rows are not rescaled.
EntryIsTfTimesIdf ==
    "tfidf_df" \in defined =>
        \A d \in DOMAIN tfidf_df : \A j \in DOMAIN vocabulary_ :
            Entry2(tfidf_df[d], j) = PlainTfidf2(vocabulary_[j], covid_df[d], covid_df)

\* C11: in the count matrix, the counts of a document's row add up to the
\* number of tokens the tokenizer produced for that document.
CountsSumToTokens ==
    df.bound =>
        \A d \in DOMAIN df.rows :
            SumSeq(df.rows[d]) = Len(spacy_tokenizer(financial_headlines[d]))

\* A count matrix with a term counted twice in one text and a text left
\* with no token at all.
RepeatedTermWitness ==
    /\ df.bound
    /\ \E d \in DOMAIN df.rows : \E j \in DOMAIN df.columns : df.rows[d][j] >= 2
    /\ \E d \in DOMAIN df.rows :
           /\ financial_headlines[d] # <<>>
           /\ SumSeq(df.rows[d]) = 0

\* The lower-cased lemmas of the tokens of doc that are neither on the stop
\* list nor punctuation, in text order.
RECURSIVE ContentLemmas(_)
ContentLemmas(doc) ==
    IF doc = <<>> THEN <<>>
    ELSE LET t == Head(doc)
         IN  (IF Lower(t.text) \in StopWords \/ t.text \in Punctuation
              THEN <<>> ELSE <<Lower(t.lemma)>>)
             \o ContentLemmas(Tail(doc))

\* C19 as stated: the tokenizer returns exactly the lower-cased lemmas of
\* the tokens that are neither stopword nor punctuation, in text order, and
\* no returned string is a stopword or a punctuation mark, and every
\* returned string is lower case.
TokensNeverStopwords ==
    call.cell = "tokens" =>
        /\ tokens = ContentLemmas(financial_headlines[call.arg])
        /\ \A i \in DOMAIN tokens :
               /\ tokens[i] \notin StopWords \cup Punctuation
               /\ Lower(tokens[i]) = tokens[i]

\* C19 amended: the tokenizer returns exactly the lower-cased lemmas of the
\* tokens that are neither stopword nor punctuation, in text order, every
\* returned string is lower case and none is a punctuation mark; the filter
\* looks at the token, so a returned lemma may itself be on the stop list.
TokensAreContentLemmas ==
    call.cell = "tokens" =>
        /\ tokens = ContentLemmas(financial_headlines[call.arg])
        /\ \A i \in DOMAIN tokens :
               /\ tokens[i] \notin Punctuation
               /\ Lower(tokens[i]) = tokens[i]

\* A text that lost a token to the filter and whose result holds a lemma
\* that is on the stop list, next to a lemma that had to be lower-cased.
StopLemmaWitness ==
    /\ call.cell = "tokens"
    /\ Len(tokens) < Len(financial_headlines[call.arg])
    /\ \E i \in DOMAIN tokens : tokens[i] \in StopWords
    /\ \E i \in DOMAIN tokens : tokens[i] = "apple"

\* C12: every entry of the TF-IDF matrix is >= 0, a row has one entry per
\* vocabulary term and no more, and an entry is nonzero only at a term that
\* occurs in the row's document.
EntriesNonNegativeAndSparse ==
    "tfidf_df" \in defined =>
        \A d \in DOMAIN tfidf_df :
            /\ Len(tfidf_df[d].w) = Len(vocabulary_)
            /\ tfidf_df[d].n2 >= 0
            /\ \A j \in DOMAIN tfidf_df[d].w :
                   /\ tfidf_df[d].w[j] >= 0
                   /\ tfidf_df[d].w[j] # 0 => Count(vocabulary_[j], covid_df[d]) > 0

\* An index with a row that has both a zero and a nonzero entry.
SparseRowWitness ==
    /\ "tfidf_df" \in defined
    /\ \E d \in DOMAIN tfidf_df : \E i, j \in DOMAIN tfidf_df[d].w :
           /\ tfidf_df[d].w[i] = 0
           /\ tfidf_df[d].w[j] > 0

ZeroRowsScoreZero ==
    /\ "tfidf_df" \in defined =>
           \A d \in DOMAIN tfidf_df :
               covid_df[d] = <<>> =>
                   /\ tfidf_df[d].n2 = 0
                   /\ \A j \in DOMAIN tfidf_df[d].w :
                          tfidf_df[d].w[j] = 0 /\ Entry2(tfidf_df[d], j) = <<0, 1>>
    /\ (call.cell = "sim" /\ "tfidf_df" \in defined /\ Len(tfidf_df) >= 2) =>
           /\ err = "none"
           /\ \A p \in DOMAIN tfidf_sim :
                  (covid_df[QueryIndex + 1] = <<>> \/ covid_df[p + 1] = <<>>)
                      => tfidf_sim[p] = <<0, 1>>

\* Similarities computed for an empty query story against an empty story
\* and against a story with tokens.
ZeroAgainstZeroWitness ==
    /\ call.cell = "sim"
    /\ err = "none"
    /\ Len(covid_df) >= 3
    /\ covid_df[QueryIndex + 1] = <<>>
    /\ \E p, q \in DOMAIN tfidf_sim :
           covid_df[p + 1] = <<>> /\ covid_df[q + 1] # <<>>

\* The similarity cell has run and shown the matrix.
CosineShown == call.cell = "cosine" /\ err = "none"

NonZero(v) == \E j \in DOMAIN v : v[j] # 0

CosineSymmetric ==
    CosineShown =>
        \A i, j \in DOMAIN cosine_sim : cosine_sim[i][j] = cosine_sim[j][i]

\* A matrix over two different nonzero vectors that are not orthogonal.
UnequalPairWitness ==
    /\ CosineShown
    /\ \E i, j \in DOMAIN cosine_sim :
           /\ Dot(embeddings[i], embeddings[i]) # Dot(embeddings[j], embeddings[j])
           /\ cosine_sim[i][j] < 0

\* The scores of the positions an argsort slice holds.
TopScores(t) == [ i \in DOMAIN t |-> tfidf_sim[t[i] + 1] ]

CountingOrderIndependent ==
    X.bound =>
        /\ X.names = FeatureNames(data)
        /\ \A j \in DOMAIN X.names :
               /\ X.df[j] = Df(X.names[j], data)
               /\ \A d \in DOMAIN data : X.rows[d][j] = Count(X.names[j], data[d])

\* A finished matrix whose documents were counted in an order that numbered
\* the terms differently from corpus order and from the sorted order.
OutOfOrderWitness ==
    /\ X.bound
    /\ vocabulary # FirstOccurrence(data)
    /\ vocabulary # X.names
    /\ \E j \in DOMAIN X.df : X.df[j] >= 2

\* The labels the prompt and the schema's description allow.
Labels == {"0", "1"}

\* The response text is a JSON object whose "classification" is a label.
Conforms(t) ==
    /\ json_loads(t).err = "none"
    /\ json_loads(t).value.type = "object"
    /\ \E i \in DOMAIN json_loads(t).value.members :
           json_loads(t).value.members[i][1] = "classification"
    /\ \A i \in DOMAIN json_loads(t).value.members :
           json_loads(t).value.members[i][1] = "classification"
               => /\ json_loads(t).value.members[i][2].type = "number"
                  /\ json_loads(t).value.members[i][2].text \in Labels

\* C20: a classify call ends in an error whenever the response text is not
\* valid JSON, has no "classification" key or has a "classification" that is
\* not an allowed label; for a conforming response it returns exactly the
\* value of "classification".
DecodeRejectsNonConforming ==
    (call.cell \in ClassifyFunctions /\ in_flight = "none") =>
        IF Conforms(output_text)
        THEN /\ err = "none"
             /\ prediction.type = "number"
             /\ prediction.text \in Labels
        ELSE err # "none"

\* C22: every title the top-5 cell shows is the title of a selected
\* document: position j of the similarity array (scores of rows 1..N-1) is
\* shown as row j + 1 of covid_df.
TitlesOfRankedRows ==
    (out.kind = "titles" /\ call.arg = TopN) =>
        \A i \in DOMAIN out.val : out.val[i] = tfidf_top5_indices[i] + 1

\* The column a batch assigns.
TargetColumn == FrameOf(batch.frame).columns[batch.target]

BatchBody == FrameOf(batch.frame).bodyContent

\* C21 as stated: when the call for one article fails, the batch is not
\* aborted: the column is delivered with one entry per article, the labels
\* obtained for the other articles in it.
PartialResultsDelivered ==
    batch.state \in {"done", "failed"} =>
        /\ TargetColumn.bound
        /\ Len(TargetColumn.values) = Len(BatchBody)
        /\ \A i \in DOMAIN batch.replies :
               Classification(batch.replies[i]).err = "none"
                   => TargetColumn.values[i] = Classification(batch.replies[i]).value

\* C21 amended: when the call for one article raises, the whole batch is
\* aborted with that exception: the labels obtained so far are dropped, no
\* article after the failing one is requested, and nothing records the
\* failure per item.
FailureAbortsBatch ==
    [][(batch.state = "running" /\ err' # "none")
          => /\ batch'.state = "failed"
             /\ batch'.results = <<>>
             /\ batch'.sent = batch.sent
             /\ in_flight' = "none"]_vars

\* A batch aborted at its second article, the label of the first one lost.
AbortedBatchWitness ==
    /\ batch.state = "failed"
    /\ Len(batch.sent) = 2
    /\ Classification(batch.replies[1]).err = "none"
    /\ ~TargetColumn.bound

\* C23: a batch sends one request per article, in row order, the next one
\* only when the one before has been answered, and the i-th value of the
\* column is what the answer to the i-th article decodes to.
OneRequestPerRowInOrder ==
    /\ batch.state = "running" =>
           /\ Len(batch.sent) = Len(batch.replies) + 1
           /\ in_flight = batch.fn
    /\ batch.state # "idle" =>
           /\ Len(batch.sent) <= Len(BatchBody)
           /\ \A i \in DOMAIN batch.sent : batch.sent[i] = BatchBody[i]
    /\ batch.state = "done" =>
           /\ Len(batch.sent) = Len(BatchBody)
           /\ Len(batch.replies) = Len(BatchBody)
           /\ Len(TargetColumn.values) = Len(BatchBody)
           /\ \A i \in DOMAIN batch.replies :
                  TargetColumn.values[i] = Classification(batch.replies[i]).value

\* A finished batch over two different articles with two different answers.
TwoRowsDoneWitness ==
    /\ batch.state = "done"
    /\ Len(BatchBody) = 2
    /\ BatchBody[1] # BatchBody[2]
    /\ TargetColumn.values[1] # TargetColumn.values[2]

\* C24: when a call raises during a batch, the target column is not
\* assigned and both dataframes are as they were.
FailedBatchLeavesFrames ==
    [][(batch.state = "running" /\ batch'.state # "done")
          => UNCHANGED <<labeled_df, unlabeled_df>>]_vars

\* A batch that failed on a column an earlier batch had assigned; the
\* column still holds the earlier values.
FailedRerunWitness ==
    /\ batch.state = "failed"
    /\ Len(batch.sent) = 2
    /\ TargetColumn.bound
    /\ Len(TargetColumn.values) = 2

\* C26: every value a classify call returns, and so every value of a
\* predicted column, is one of the labels 0 and 1.
PredictionsAreLabels ==
    /\ (in_flight = "none" /\ err = "none" /\ prediction # Null)
           => (prediction.type = "number" /\ prediction.text \in Labels)
    /\ \A f \in {labeled_df, unlabeled_df} : \A c \in DOMAIN f.columns :
           \A i \in DOMAIN f.columns[c].values :
               /\ f.columns[c].values[i].type = "number"
               /\ f.columns[c].values[i].text \in Labels

\* The message list m is the system prompt, then for each row of
\* few_shot_examples_df in order a user message with the row's article and an
\* assistant message with the row's label, then one user message with the
\* article to classify.
FewShotListFor(m, article) ==
    LET E == Len(few_shot_examples_df)
    IN  /\ Len(m) = 2 * E + 2
        /\ m[1] = [role |-> "system", type |-> "input_text", text |-> system_prompt]
        /\ \A e \in 1..E :
               /\ m[2 * e] = [role |-> "user", type |-> "input_text",
                              text |-> few_shot_examples_df[e].bodyContent]
               /\ m[2 * e + 1].role = "assistant"
               /\ m[2 * e + 1].type = "output_text"
               /\ Classification(m[2 * e + 1].text).value
                      = Scalar("number", Str(few_shot_examples_df[e].label))
        /\ m[2 * E + 2] = [role |-> "user", type |-> "input_text", text |-> article]

\* C25: the message list of every few-shot request is the system prompt,
\* the examples in dataframe order (user message, then assistant message
\* with the example's label), and the article as the last user message,
\* 2*E + 2 messages in all; the call leaves few_shot_examples as it was.
FewShotMessagesInOrder ==
    [][/\ in_flight' = "fewshot_classify"
          => FewShotListFor(messages', batch'.sent[Len(batch'.sent)])
       /\ (in_flight = "fewshot_classify" \/ in_flight' = "fewshot_classify")
          => few_shot_examples' = few_shot_examples]_vars

\* A request under way with two examples of different labels.
TwoExamplesWitness ==
    /\ in_flight = "fewshot_classify"
    /\ Len(messages) = 6
    /\ messages[3].text # messages[5].text
    /\ messages[2].text # messages[6].text

\* The texts of a group of entity_sets.
TextsOf(group) == { group[k].text : k \in DOMAIN group }

\* The edges cell ran last, on the entity_sets the state shows.
EdgesCounted == call.cell = "edges" /\ err = "none"

\* C27: an unordered pair of texts is stored under at most one key of
\* edges: never under (a, b) and (b, a) both, and never as (a, a).
EdgesOnePerPair ==
    \A i, j \in DOMAIN edges :
        /\ edges[i].key[1] # edges[i].key[2]
        /\ edges[i].key # <<edges[j].key[2], edges[j].key[1]>>
        /\ (i # j => edges[i].key # edges[j].key)

\* Two groups met the same pair in opposite orders and it was counted twice
\* under one key.
BothOrdersWitness ==
    /\ EdgesCounted
    /\ \E i, j \in DOMAIN entity_sets :
           /\ Len(entity_sets[i]) = 2
           /\ Len(entity_sets[j]) = 2
           /\ entity_sets[i][1].text # entity_sets[i][2].text
           /\ entity_sets[i][1].text = entity_sets[j][2].text
           /\ entity_sets[i][2].text = entity_sets[j][1].text
    /\ \E k \in DOMAIN edges : edges[k].weight = 2

\* The weight edges holds for the pair {a, b}, 0 when it has no key.
WeightOf(a, b) ==
    LET hits == { k \in DOMAIN edges : edges[k].key \in {<<a, b>>, <<b, a>>} }
    IN  IF hits = {} THEN 0 ELSE edges[CHOOSE k \in hits : TRUE].weight

\* C28: each group adds exactly 1 to each pair of different texts it holds,
\* so a weight is the number of groups (sentences) in which both texts
\* occur, also when a text is mentioned several times in a sentence.
WeightIsSentenceCount ==
    EdgesCounted =>
        LET texts == UNION { TextsOf(entity_sets[g]) : g \in DOMAIN entity_sets }
        IN  \A a, b \in texts :
                a # b => WeightOf(a, b) =
                             Cardinality({ g \in DOMAIN entity_sets :
                                             {a, b} \subseteq TextsOf(entity_sets[g]) })

\* The mentions of a sentence the entity_sets cell run last keeps.
KeptMentions(sent) ==
    { sent[k] : k \in { n \in DOMAIN sent : call.arg = 0 \/ sent[n].label = "PERSON" } }

\* entity_sets holds, in sentence order, the mentions of each sentence with
\* more than one (kept) mention, every mention once, and nothing else; the
\* exercise answer keeps PERSON mentions only.
GroupsFromSentences ==
    call.cell = "entity_sets" =>
        /\ \A g \in DOMAIN entity_sets :
               /\ Len(entity_sets[g]) > 1
               /\ \A k, n \in DOMAIN entity_sets[g] :
                      k # n => entity_sets[g][k] # entity_sets[g][n]
               /\ call.arg = 1 =>
                      \A k \in DOMAIN entity_sets[g] : entity_sets[g][k].label = "PERSON"
        /\ \E f \in [DOMAIN entity_sets -> DOMAIN bookdoc] :
               /\ \A g, h \in DOMAIN entity_sets : g < h => f[g] < f[h]
               /\ \A g \in DOMAIN entity_sets :
                      Range(entity_sets[g]) = KeptMentions(bookdoc[f[g]])
               /\ \A n \in DOMAIN bookdoc :
                      Cardinality(KeptMentions(bookdoc[n])) > 1
                          => \E g \in DOMAIN entity_sets : f[g] = n

WidthIs(i) == widths[i].num * 10 * max_weight = widths[i].den * (max_weight + 60 * weights[i])

====
